---------------------------- MODULE Spec2Model ----------------------------
(***************************************************************************)
(* Model of application.py: a process-wide pair of artifacts               *)
(* (_loaded_model, _vectorizer) loaded lazily under _artifact_lock by      *)
(* _load_artifacts_once, a background thread that eagerly loads them at    *)
(* start, and the four HTTP handlers that read the pair or run inference.  *)
(*                                                                         *)
(* Every thread switch the interpreter allows between two accesses of the  *)
(* shared globals is a step boundary here: the two operands of the         *)
(* presence test of line 33 (and of lines 135 and 145) are read in two     *)
(* steps, and the two assignments of lines 40 and 42 are two steps.  The   *)
(* form handler's own status reads (lines 158 and 184), which only fill    *)
(* the status banner of an error page, are taken in the step that answers. *)
(* An exception's way from the raise to the except clause that answers it  *)
(* touches no shared state and is part of the raising step, the release of *)
(* the lock by the with block included.                                    *)
(***************************************************************************)
EXTENDS Naturals, Sequences, FiniteSets

\* ------------------------------------------------------------------ bounds

\* Longest raw message a client sends, in characters.
MaxMsgLen == 2
\* The classifier file is deserialized at most this many times: a request to
\* /predict or /predict-form is accepted while the loads done and the calls
\* that may still load stay within it (keeps the object identities finite).
MaxLoads == 2

\* ----------------------------------------------------------------- threads

BG == "bg"
ReqThreads == {"r1", "r2"}
Threads == {BG} \cup ReqThreads
NoThread == "none"

\* ------------------------------------------------------------ python values

\* None, as the value of a module global; a loaded object is a number >= 1,
\* its identity (the n-th object deserialized from its file).
None == 0

\* The exception classes the handlers tell apart, each with its base class.
Base(cls) ==
    CASE cls = "FileNotFoundError" -> "OSError"
      [] cls = "PermissionError" -> "OSError"
      [] cls = "OSError" -> "Exception"
      [] cls = "UnpicklingError" -> "Exception"
      [] cls = "AttributeError" -> "Exception"
      [] cls = "ValueError" -> "Exception"
      [] cls = "Exception" -> "BaseException"
      [] OTHER -> "object"

RECURSIVE IsInstance(_, _)
IsInstance(e, cls) ==
    IF e = cls THEN TRUE
    ELSE IF e = "object" THEN FALSE
    ELSE IsInstance(Base(e), cls)

\* ------------------------------------------------------------------- files

\* What is at an artifact path: a good pickle, nothing, a file the process
\* may not read, or bytes that do not unpickle.
FileStates == {"ok", "missing", "unreadable", "corrupt"}

\* open(path, "rb") followed by pickle.load: "ok", or the exception raised.
OpenAndLoad(file) ==
    CASE file = "ok" -> "ok"
      [] file = "missing" -> "FileNotFoundError"
      [] file = "unreadable" -> "PermissionError"
      [] file = "corrupt" -> "UnpicklingError"

\* ---------------------------------------------------------------- messages

Space == " "
Chars == {Space, "a"}
JsonNull == <<"null">>
NoneStr == <<"N", "o", "n", "e">>

RawStrings == UNION {[1..n -> Chars] : n \in 0..MaxMsgLen}

RECURSIVE LStrip(_)
LStrip(s) ==
    IF s # <<>> /\ Head(s) = Space THEN LStrip(Tail(s)) ELSE s

RECURSIVE RStrip(_)
RStrip(s) ==
    IF s # <<>> /\ s[Len(s)] = Space THEN RStrip(SubSeq(s, 1, Len(s) - 1)) ELSE s

\* str.strip()
Strip(s) == RStrip(LStrip(s))

\* str(v) of a JSON value: a string is itself, null is "None".
PyStr(v) == IF v = JsonNull THEN NoneStr ELSE v

\* The JSON bodies of POST /predict: no or invalid JSON (get_json gives None),
\* a value that is not an object (falsy: replaced by {}; truthy: kept), an
\* object without "message", an object whose "message" is a string or null.
JsonBodies ==
    {[shape |-> "nojson", message |-> <<>>],
     [shape |-> "falsy", message |-> <<>>],
     [shape |-> "truthy_nonobject", message |-> <<>>],
     [shape |-> "object_nokey", message |-> <<>>]}
    \cup {[shape |-> "object", message |-> m] : m \in RawStrings \cup {JsonNull}}

\* The form bodies of POST /predict-form: field absent, or a string.
FormBodies ==
    {[shape |-> "nofield", message |-> <<>>]}
    \cup {[shape |-> "field", message |-> m] : m \in RawStrings}

\* The request carries no message, or one that is empty once trimmed.
MissingOrEmpty(body) ==
    \/ body.shape \in {"nojson", "falsy", "truthy_nonobject", "object_nokey", "nofield"}
    \/ body.message # JsonNull /\ Strip(body.message) = <<>>

\* --------------------------------------------------------------- responses

MSG_REQUIRED == "Field 'message' is required and must be non-empty."
MSG_NOT_FOUND == "Model artifacts not found on server."
MSG_INFERENCE == "Inference failed."
MSG_FLASK_500 == "Internal Server Error"

NoResponse ==
    [status |-> 0, kind |-> "none", error |-> "", label |-> "",
     model_loaded |-> FALSE, paths |-> {}]

JsonError(status, msg) ==
    [status |-> status, kind |-> "json", error |-> msg, label |-> "",
     model_loaded |-> FALSE, paths |-> {}]

JsonLabel(label) ==
    [status |-> 200, kind |-> "json", error |-> "", label |-> label,
     model_loaded |-> FALSE, paths |-> {}]

\* render_template_string(DEMO_HTML, ...): the page shows the status, the
\* prediction or the error, and the model path in its footer.
DemoPage(status, loaded, prediction, error) ==
    [status |-> status, kind |-> "html", error |-> error, label |-> prediction,
     model_loaded |-> loaded, paths |-> {"MODEL_PATH"}]

HealthBody(loaded) ==
    [status |-> 200, kind |-> "json", error |-> "", label |-> "",
     model_loaded |-> loaded, paths |-> {"MODEL_PATH", "VECTORIZER_PATH"}]

\* An exception no handler catches: the framework's own 500 page.
Unhandled500 ==
    [status |-> 500, kind |-> "html", error |-> MSG_FLASK_500, label |-> "",
     model_loaded |-> FALSE, paths |-> {}]

\* --------------------------------------------------------------- inference

\* What predict returns in pred[0]: a native str, a numpy str or a numpy
\* integer (s is the text of a str, n the value of an integer).
Predictions ==
    {[type |-> "str", s |-> "FAKE", n |-> 0],
     [type |-> "np_str", s |-> "REAL", n |-> 0],
     [type |-> "np_int", s |-> "", n |-> 1]}

\* hasattr(val, "item"): numpy scalars have it, a native str does not.
HasItem(val) == val.type \in {"np_str", "np_int"}

\* numpy's .item(): the native value of the scalar.
Item(val) ==
    [val EXCEPT !.type = IF val.type = "np_int" THEN "int" ELSE "str"]

Digits == <<"0", "1", "2", "3", "4", "5", "6", "7", "8", "9">>

\* str() of a value: a str is itself, an int its decimal form, a numpy
\* integer (not unwrapped) its decimal form as well.
Str(val) == IF val.type \in {"int", "np_int"} THEN Digits[val.n + 1] ELSE val.s

\* Variant of Normalize: repr() in place of str(), which for a numpy scalar
\* names its type.
NormalizeRepr(val) == IF HasItem(val) THEN val.type ELSE Str(val)

\* Lines 52-54 of _predict_text.
Normalize(val) == Str(IF HasItem(val) THEN Item(val) ELSE val)

\* The local val of _predict_text (line 52) outside the call.
NoVal == [type |-> "none", s |-> "", n |-> 0]

\* What transform or predict may raise.
InferenceExc == {"ValueError", "FileNotFoundError"}

\* ------------------------------------------------------------------- state

VARIABLES
    _loaded_model,   \* the module global: None or the loaded classifier
    _vectorizer,     \* the module global: None or the loaded vectorizer
    _artifact_lock,  \* the thread holding the lock, or NoThread
    modelFile,       \* what is at MODEL_PATH
    vecFile,         \* what is at VECTORIZER_PATH
    pc,              \* each thread's position
    req,             \* each request thread's current (or last) request
    resp,            \* each request thread's response to it, once given
    modelLoads,      \* classifier objects deserialized so far
    vecLoads,        \* vectorizer objects deserialized so far
    loadFailed,      \* some load attempt has ended in an exception
    bgFailed,        \* the background task's call raised
    val,             \* each request thread's local val of _predict_text
    bgUncaught       \* an exception left the background task's function

vars ==
    <<_loaded_model, _vectorizer, _artifact_lock, modelFile, vecFile, pc, req,
      resp, modelLoads, vecLoads, loadFailed, bgFailed, val, bgUncaught>>

store == <<_loaded_model, _vectorizer>>
files == <<modelFile, vecFile>>
counters == <<modelLoads, vecLoads, loadFailed>>
bgflags == <<bgFailed, bgUncaught>>

\* A request: its handler, whether the client sent no message or an empty
\* one, and (for the two predict handlers) whether both artifact files have
\* been missing for as long as the request has been running.  The message
\* itself is not kept: once it has passed validation nothing in the program
\* branches on it.
NoRequest == [handler |-> "none", invalid |-> FALSE, absent |-> FALSE]

FilesAbsent == modelFile = "missing" /\ vecFile = "missing"

Request(handler, invalid) ==
    [handler |-> handler, invalid |-> invalid,
     absent |-> handler \in {"predict_json", "predict_form"} /\ FilesAbsent]

\* Both artifacts are present (the test of lines 33, 135, 145).
Loaded == _loaded_model # None /\ _vectorizer # None
Absent == _loaded_model = None /\ _vectorizer = None

\* Variant of ModelIsSet: no fast path, every call goes for the lock.
ModelIsSetNever == FALSE

\* Variant of VecIsSet: the presence test looks at _loaded_model alone.
VecIsSetAlways == TRUE

\* The two operands of the presence test, each one read of a global.
ModelIsSet == _loaded_model # None
VecIsSet == _vectorizer # None

Init ==
    /\ _loaded_model = None
    /\ _vectorizer = None
    /\ _artifact_lock = NoThread
    /\ modelFile \in FileStates
    /\ vecFile \in FileStates
    /\ pc = [t \in Threads |-> IF t = BG THEN "check_model" ELSE "idle"]
    /\ req = [t \in ReqThreads |-> NoRequest]
    /\ resp = [t \in ReqThreads |-> NoResponse]
    /\ val = [t \in ReqThreads |-> NoVal]
    /\ modelLoads = 0
    /\ vecLoads = 0
    /\ loadFailed = FALSE
    /\ bgFailed = FALSE
    /\ bgUncaught = FALSE

\* ------------------------------------------- _load_artifacts_once (30-43)

\* Where a thread goes when _load_artifacts_once returns normally: the
\* background task is finished (line 59), a request goes on to line 49.
AfterLoad(t) == IF t = BG THEN "done" ELSE "transform"

\* Variant of CanAcquire: a lock that excludes nobody (each caller locking
\* a lock of its own).
CanAcquireAlways == TRUE

\* threading.Lock: acquirable when no thread holds it (line 35).
CanAcquire == _artifact_lock = NoThread

\* Variant of NeedsLoad: no second check once the lock is held.
NeedsLoadAlways(m, v) == TRUE

\* Variant of NeedsLoad: the re-check never finds anything to load.
NeedsLoadNever(m, v) == FALSE

\* Variant of NeedsLoad: "and" for "or", so that a store left with only the
\* classifier by a failed attempt is never loaded again.
NeedsLoadBothAbsent(m, v) == m = None /\ v = None

\* The re-check under the lock (line 36).
NeedsLoad(m, v) == m = None \/ v = None

\* Variant of BgCatches: except FileNotFoundError in place of Exception.
BgCatchesNotFound(e) == IsInstance(e, "FileNotFoundError")

\* The except clause of _eager_load_background (line 60).
BgCatches(e) == IsInstance(e, "Exception")

\* Variant of StatusFor: the except Exception clause placed first.
StatusForExceptionFirst(e) == IF IsInstance(e, "Exception") THEN 500 ELSE 0

\* Variant of FormStatusFor: the form handler without its except
\* FileNotFoundError clause.
FormStatusForExceptionOnly(e) == IF IsInstance(e, "Exception") THEN 500 ELSE 0

\* The except clauses of predict_json (200-204): the status the handler
\* answers an exception of _predict_text with (0: none of them catches it).
StatusFor(e) ==
    IF IsInstance(e, "FileNotFoundError") THEN 503
    ELSE IF IsInstance(e, "Exception") THEN 500
    ELSE 0

\* The except clauses of predict_form (172-188).
FormStatusFor(e) ==
    IF IsInstance(e, "FileNotFoundError") THEN 503
    ELSE IF IsInstance(e, "Exception") THEN 500
    ELSE 0

ErrorFor(status) == IF status = 503 THEN MSG_NOT_FOUND ELSE MSG_INFERENCE

\* The response of a predict handler whose _predict_text raised e.  The form
\* handler's 500 page shows the status read from the globals at that moment.
ErrorResponse(handler, e) ==
    IF handler = "predict_json"
    THEN IF StatusFor(e) = 0 THEN Unhandled500
         ELSE JsonError(StatusFor(e), ErrorFor(StatusFor(e)))
    ELSE IF FormStatusFor(e) = 0 THEN Unhandled500
         ELSE DemoPage(FormStatusFor(e),
                       IF FormStatusFor(e) = 503 THEN FALSE ELSE Loaded,
                       "", ErrorFor(FormStatusFor(e)))

\* The handler of thread t returns response r: the request is over.
Respond(t, r) ==
    /\ pc' = [pc EXCEPT ![t] = "idle"]
    /\ resp' = [resp EXCEPT ![t] = r]
    /\ UNCHANGED req

\* Exception e leaves _load_artifacts_once or the inference calls in thread
\* t: the background task catches and logs it, a request handler answers.
Raise(t, e) ==
    IF t = BG
    THEN /\ pc' = [pc EXCEPT ![t] = "done"]
         /\ bgFailed' = TRUE
         /\ bgUncaught' = (bgUncaught \/ ~BgCatches(e))
         /\ UNCHANGED <<req, resp>>
    ELSE /\ Respond(t, ErrorResponse(req[t].handler, e))
         /\ UNCHANGED bgflags

\* Line 33, first operand: _loaded_model is not None.
CheckModel(t) ==
    /\ pc[t] = "check_model"
    /\ pc' = [pc EXCEPT ![t] = IF ModelIsSet THEN "check_vec" ELSE "acquire"]
    /\ UNCHANGED <<store, _artifact_lock, files, req, resp, val, counters, bgflags>>

\* Line 33, second operand: _vectorizer is not None; line 34 returns.
CheckVec(t) ==
    /\ pc[t] = "check_vec"
    /\ pc' = [pc EXCEPT ![t] = IF VecIsSet THEN AfterLoad(t) ELSE "acquire"]
    /\ UNCHANGED <<store, _artifact_lock, files, req, resp, val, counters, bgflags>>

\* Line 35: with _artifact_lock (blocks while another thread holds it).
Acquire(t) ==
    /\ pc[t] = "acquire"
    /\ CanAcquire
    /\ _artifact_lock' = t
    /\ pc' = [pc EXCEPT ![t] = "recheck"]
    /\ UNCHANGED <<store, files, req, resp, val, counters, bgflags>>

\* Line 36: the second check, under the lock.
Recheck(t) ==
    /\ pc[t] = "recheck"
    /\ pc' = [pc EXCEPT ![t] =
                IF NeedsLoad(_loaded_model, _vectorizer) THEN "load_model" ELSE "release"]
    /\ UNCHANGED <<store, _artifact_lock, files, req, resp, val, counters, bgflags>>

\* Variant of LockAfterException: acquire() without a with block or a
\* finally, so an exception leaves the lock held.
LockAfterExceptionHeld(t) == t

\* The lock after an exception leaves the with block (its __exit__ runs).
LockAfterException(t) == NoThread

\* Lines 39-40: open MODEL_PATH, unpickle, assign _loaded_model.
LoadModel(t) ==
    /\ pc[t] = "load_model"
    /\ IF OpenAndLoad(modelFile) = "ok"
       THEN /\ modelLoads' = modelLoads + 1
            /\ _loaded_model' = modelLoads + 1
            /\ pc' = [pc EXCEPT ![t] = "load_vec"]
            /\ UNCHANGED <<_vectorizer, _artifact_lock, vecLoads, loadFailed,
                           req, resp, bgflags>>
       ELSE /\ loadFailed' = TRUE
            /\ _artifact_lock' = LockAfterException(t)
            /\ Raise(t, OpenAndLoad(modelFile))
            /\ UNCHANGED <<store, modelLoads, vecLoads>>
    /\ UNCHANGED <<files, val>>

\* Lines 41-42: open VECTORIZER_PATH, unpickle, assign _vectorizer.
LoadVec(t) ==
    /\ pc[t] = "load_vec"
    /\ IF OpenAndLoad(vecFile) = "ok"
       THEN /\ vecLoads' = vecLoads + 1
            /\ _vectorizer' = vecLoads + 1
            /\ pc' = [pc EXCEPT ![t] = "release"]
            /\ UNCHANGED <<_loaded_model, _artifact_lock, modelLoads, loadFailed,
                           req, resp, bgflags>>
       ELSE /\ loadFailed' = TRUE
            /\ _artifact_lock' = LockAfterException(t)
            /\ Raise(t, OpenAndLoad(vecFile))
            /\ UNCHANGED <<store, modelLoads, vecLoads>>
    /\ UNCHANGED <<files, val>>

\* The end of the with block (line 43): release the lock and return.
Release(t) ==
    /\ pc[t] = "release"
    /\ _artifact_lock' = NoThread
    /\ pc' = [pc EXCEPT ![t] = AfterLoad(t)]
    /\ UNCHANGED <<store, files, req, resp, val, counters, bgflags>>

\* ----------------------------------------------------- health, demo (131-149)

\* The response of GET / (133-138) or GET /demo (143-149).
StatusResponse(handler, loaded) ==
    IF handler = "health" THEN HealthBody(loaded) ELSE DemoPage(200, loaded, "", "")

\* GET /: a request arrives at an idle worker thread.
Health(t) ==
    /\ pc[t] = "idle"
    /\ req' = [req EXCEPT ![t] = Request("health", FALSE)]
    /\ resp' = [resp EXCEPT ![t] = NoResponse]
    /\ val' = [val EXCEPT ![t] = NoVal]
    /\ pc' = [pc EXCEPT ![t] = "status_model"]
    /\ UNCHANGED <<store, _artifact_lock, files, counters, bgflags>>

\* GET /demo.
Demo(t) ==
    /\ pc[t] = "idle"
    /\ req' = [req EXCEPT ![t] = Request("demo", FALSE)]
    /\ resp' = [resp EXCEPT ![t] = NoResponse]
    /\ val' = [val EXCEPT ![t] = NoVal]
    /\ pc' = [pc EXCEPT ![t] = "status_model"]
    /\ UNCHANGED <<store, _artifact_lock, files, counters, bgflags>>

\* Lines 135, 145, first operand: _loaded_model is not None.
StatusModel(t) ==
    /\ pc[t] = "status_model"
    /\ IF ModelIsSet
       THEN /\ pc' = [pc EXCEPT ![t] = "status_vec"]
            /\ UNCHANGED <<req, resp>>
       ELSE Respond(t, StatusResponse(req[t].handler, FALSE))
    /\ UNCHANGED <<store, _artifact_lock, files, val, counters, bgflags>>

\* Lines 135, 145, second operand: _vectorizer is not None.
StatusVec(t) ==
    /\ pc[t] = "status_vec"
    /\ Respond(t, StatusResponse(req[t].handler, VecIsSet))
    /\ UNCHANGED <<store, _artifact_lock, files, val, counters, bgflags>>

\* ------------------------------------------ predict_json, predict_form

\* Line 193: request.get_json(silent=True) or {}; line 194 calls .get on it,
\* which a list, a string or a number does not have.
JsonHasGet(body) == body.shape # "truthy_nonobject"

\* Line 194: str(data.get("message", "")).strip()
JsonMessage(body) ==
    Strip(PyStr(IF body.shape = "object" THEN body.message ELSE <<>>))

\* Line 154: (request.form.get("message") or "").strip()
FormMessage(body) ==
    Strip(IF body.shape = "field" THEN body.message ELSE <<>>)

\* Lines 155, 195: if not message.
Rejected(message) == message = <<>>

\* The threads inside _load_artifacts_once that have not yet read the
\* classifier file.
BeforeLoad == {t \in Threads : pc[t] \in {"check_model", "check_vec", "acquire", "recheck", "load_model"}}

\* Bounds the model: while the artifacts are not loaded, one more call
\* cannot take the loads past MaxLoads.
MayLoad == Loaded \/ modelLoads + Cardinality(BeforeLoad) < MaxLoads

\* The handler of thread t answers a request without calling _predict_text.
Answer(t, request, r) ==
    /\ req' = [req EXCEPT ![t] = request]
    /\ resp' = [resp EXCEPT ![t] = r]
    /\ val' = [val EXCEPT ![t] = NoVal]
    /\ UNCHANGED pc

\* The handler of thread t calls _predict_text (lines 164, 198).
CallPredictText(t, request) ==
    /\ MayLoad
    /\ req' = [req EXCEPT ![t] = request]
    /\ resp' = [resp EXCEPT ![t] = NoResponse]
    /\ val' = [val EXCEPT ![t] = NoVal]
    /\ pc' = [pc EXCEPT ![t] = "check_model"]

\* The answer to a message that is empty after trimming (155-162, 195-196).
ValidationResponse(handler) ==
    IF handler = "predict_json" THEN JsonError(400, MSG_REQUIRED)
    ELSE DemoPage(400, Loaded, "", MSG_REQUIRED)

\* What decides the handler's path for a body: whether .get exists on the
\* parsed data, whether the message is rejected, and (for the record) whether
\* the client sent no message or an empty one.
JsonCases ==
    {[has_get |-> JsonHasGet(body), rejected |-> Rejected(JsonMessage(body)),
      invalid |-> MissingOrEmpty(body)] : body \in JsonBodies}

FormCases ==
    {[has_get |-> TRUE, rejected |-> Rejected(FormMessage(body)),
      invalid |-> MissingOrEmpty(body)] : body \in FormBodies}

\* POST /predict up to the call of _predict_text (192-198).
PredictJson(t) ==
    /\ pc[t] = "idle"
    /\ \E c \in JsonCases :
         IF ~c.has_get
         THEN Answer(t, Request("predict_json", c.invalid), Unhandled500)
         ELSE IF c.rejected
         THEN Answer(t, Request("predict_json", c.invalid),
                     ValidationResponse("predict_json"))
         ELSE CallPredictText(t, Request("predict_json", c.invalid))
    /\ UNCHANGED <<store, _artifact_lock, files, counters, bgflags>>

\* POST /predict-form up to the call of _predict_text (153-164).
PredictForm(t) ==
    /\ pc[t] = "idle"
    /\ \E c \in FormCases :
         IF c.rejected
         THEN Answer(t, Request("predict_form", c.invalid),
                     ValidationResponse("predict_form"))
         ELSE CallPredictText(t, Request("predict_form", c.invalid))
    /\ UNCHANGED <<store, _artifact_lock, files, counters, bgflags>>

\* The response of a predict handler whose _predict_text returned label
\* (lines 165-171, 199).
LabelResponse(handler, label) ==
    IF handler = "predict_json" THEN JsonLabel(label)
    ELSE DemoPage(200, TRUE, label, "")

\* Line 49: X = _vectorizer.transform([message])
Transform(t) ==
    /\ pc[t] = "transform"
    /\ IF _vectorizer = None
       THEN Raise(t, "AttributeError")
       ELSE \E out \in {"ok"} \cup InferenceExc :
              IF out = "ok"
              THEN /\ pc' = [pc EXCEPT ![t] = "predict"]
                   /\ UNCHANGED <<req, resp, bgflags>>
              ELSE Raise(t, out)
    /\ UNCHANGED <<store, _artifact_lock, files, val, counters>>

\* Lines 50-54: pred = _loaded_model.predict(X); return str of pred[0].
Predict(t) ==
    /\ pc[t] = "predict"
    /\ IF _loaded_model = None
       THEN Raise(t, "AttributeError") /\ UNCHANGED val
       ELSE \/ \E p \in Predictions :
                 /\ val' = [val EXCEPT ![t] = p]
                 /\ Respond(t, LabelResponse(req[t].handler, Normalize(p)))
                 /\ UNCHANGED bgflags
            \/ \E e \in InferenceExc : Raise(t, e) /\ UNCHANGED val
    /\ UNCHANGED <<store, _artifact_lock, files, counters>>

\* ------------------------------------------------------------- environment

\* A file changes: both files are no longer known to be missing for the
\* whole of any request in flight.
Touched == [t \in ReqThreads |-> [req[t] EXCEPT !.absent = FALSE]]

\* The deployment writes, replaces or removes the classifier file.
SetModelFile ==
    /\ \E s \in FileStates \ {modelFile} : modelFile' = s
    /\ req' = Touched
    /\ UNCHANGED <<store, _artifact_lock, vecFile, pc, resp, val, counters, bgflags>>

\* The deployment writes, replaces or removes the vectorizer file.
SetVecFile ==
    /\ \E s \in FileStates \ {vecFile} : vecFile' = s
    /\ req' = Touched
    /\ UNCHANGED <<store, _artifact_lock, modelFile, pc, resp, val, counters, bgflags>>

\* ------------------------------------------------------------ specification

Next ==
    \/ \E t \in Threads : CheckModel(t)
    \/ \E t \in Threads : CheckVec(t)
    \/ \E t \in Threads : Acquire(t)
    \/ \E t \in Threads : Recheck(t)
    \/ \E t \in Threads : LoadModel(t)
    \/ \E t \in Threads : LoadVec(t)
    \/ \E t \in Threads : Release(t)
    \/ \E t \in ReqThreads : Health(t)
    \/ \E t \in ReqThreads : Demo(t)
    \/ \E t \in ReqThreads : StatusModel(t)
    \/ \E t \in ReqThreads : StatusVec(t)
    \/ \E t \in ReqThreads : PredictJson(t)
    \/ \E t \in ReqThreads : PredictForm(t)
    \/ \E t \in ReqThreads : Transform(t)
    \/ \E t \in ReqThreads : Predict(t)
    \/ SetModelFile
    \/ SetVecFile

Spec == Init /\ [][Next]_vars

\* ------------------------------------------------------------------ claims

PredictHandlers == {"predict_json", "predict_form"}

\* Thread t is between the re-check and the end of the two deserializations.
InLoad(t) == pc[t] \in {"load_model", "load_vec"}

\* This step is thread t's load attempt ending in an exception.
LoadFails(t) == InLoad(t) /\ pc'[t] \in {"idle", "done"}

\* Thread t has answered its request.
Answered(t) == pc[t] = "idle" /\ resp[t] # NoResponse

\* Thread t has answered a predict request that had a non-empty message.
Classified(t) ==
    Answered(t) /\ req[t].handler \in PredictHandlers /\ ~req[t].invalid

\* C1: cold start under concurrency.  As long as no load attempt has failed,
\* the classifier file and the vectorizer file are each deserialized at most
\* once, counting the deserialization a thread is about to do, and exactly
\* once each when the store is loaded: every caller but one returns without
\* deserializing anything.
C1_ColdStartLoadsOnce ==
    ~loadFailed =>
        /\ modelLoads + Cardinality({t \in Threads : pc[t] = "load_model"}) <= 1
        /\ vecLoads + Cardinality({t \in Threads : InLoad(t)}) <= 1
        /\ Loaded => modelLoads = 1 /\ vecLoads = 1

\* C1 witness: a cold start in which one caller is deserializing while another
\* waits for the lock, nothing having failed.
C1_Witness ==
    /\ ~loadFailed
    /\ \E t \in Threads, u \in Threads :
         t # u /\ pc[t] = "load_vec" /\ pc[u] = "acquire"

\* C2: atomic publication.  Whenever a thread is at a presence test outside
\* the lock (line 33, or the status read of lines 135 and 145), the two shared
\* references are both absent or both present.
C2_AtomicPublication ==
    \A t \in Threads :
        pc[t] \in {"check_model", "check_vec", "status_model", "status_vec"}
            => (Loaded \/ Absent)

\* C3: no partial state on failure.  A step in which a load attempt ends in an
\* exception leaves both shared references absent.
C3_NoPartialStateOnFailure ==
    [][\A t \in Threads : LoadFails(t) => Absent']_vars

\* C4: failure is not cached.  A load attempt that ends in an exception leaves
\* the lock free; a caller that holds the lock while the store is not loaded
\* always starts a fresh attempt with the classifier file, whatever failed
\* before; and an attempt that finds both files readable ends with the store
\* loaded.
C4_FailureNotCached ==
    [][\A t \in Threads :
          /\ LoadFails(t) => _artifact_lock' = NoThread
          /\ (pc[t] = "recheck" /\ pc'[t] # "recheck" /\ ~Loaded)
                => pc'[t] = "load_model"
          /\ (pc[t] = "load_model" /\ pc'[t] # "load_model" /\ modelFile = "ok")
                => (pc'[t] = "load_vec" /\ modelLoads' = modelLoads + 1)
          /\ (pc[t] = "load_vec" /\ pc'[t] # "load_vec" /\ vecFile = "ok")
                => Loaded'
      ]_vars

\* C4 witness: an attempt has failed and the store is loaded all the same.
C4_Witness == loadFailed /\ Loaded /\ _artifact_lock = NoThread

C6_LoadedIsTerminal ==
    [][Loaded => (_loaded_model' = _loaded_model /\ _vectorizer' = _vectorizer)]_vars

\* C6 witness: the store is loaded, the background task is over, and both a
\* status read and an inference have been answered from the loaded store.
C6_Witness ==
    /\ Loaded
    /\ pc[BG] = "done"
    /\ \E t \in ReqThreads, u \in ReqThreads :
         /\ Answered(t) /\ req[t].handler = "health" /\ resp[t].model_loaded
         /\ Answered(u) /\ req[u].handler = "predict_form" /\ resp[u].status = 200

\* C7: a failure of the background eager load is swallowed.  When the
\* background task's call has failed, no exception has left the task, the
\* task is over, it does not hold the lock, and every idle worker can still
\* take a request.
C7_BackgroundFailureSwallowed ==
    bgFailed =>
        /\ ~bgUncaught
        /\ pc[BG] = "done"
        /\ _artifact_lock # BG
        /\ \A t \in ReqThreads : pc[t] = "idle" => ENABLED Health(t)

\* C7 witness: after the background load failed, a request is doing its own
\* load attempt under the lock.
C7_Witness ==
    /\ bgFailed
    /\ \E t \in ReqThreads : pc[t] = "load_model" /\ _artifact_lock = t

\* C8: every load failure maps to 503.  A step in which a request's load
\* attempt ends in an exception answers 503 with the artifacts-not-found
\* message.
C8_EveryLoadFailureIs503 ==
    [][\A t \in ReqThreads :
          LoadFails(t) => (resp'[t].status = 503 /\ resp'[t].error = MSG_NOT_FOUND)
      ]_vars

\* C9 as stated: a predict request with a non-empty message that ran while
\* both artifact files were missing is answered 503, and GET / is answered 200.
C9_AbsentFilesAlways503 ==
    \A t \in ReqThreads :
        /\ (Classified(t) /\ req[t].absent) => resp[t].status = 503
        /\ (Answered(t) /\ req[t].handler = "health") => resp[t].status = 200

\* C9 as amended: a predict request with a non-empty message that ran while
\* both artifact files were missing and the store was not loaded is answered
\* 503 with the artifacts-not-found message, and GET / is answered 200.
C9_AbsentFilesUnloaded503 ==
    \A t \in ReqThreads :
        /\ (Classified(t) /\ req[t].absent /\ ~Loaded)
              => (resp[t].status = 503 /\ resp[t].error = MSG_NOT_FOUND)
        /\ (Answered(t) /\ req[t].handler = "health") => resp[t].status = 200

\* C9 witness: with the files missing and nothing loaded, /predict and
\* /predict-form have both answered 503 after the background load failed.
C9_Witness ==
    /\ ~Loaded
    /\ bgFailed
    /\ \E t \in ReqThreads, u \in ReqThreads :
         /\ Classified(t) /\ req[t].handler = "predict_json"
         /\ req[t].absent /\ resp[t].status = 503
         /\ Classified(u) /\ req[u].handler = "predict_form"
         /\ req[u].absent /\ resp[u].status = 503

\* C10: validation at the boundary.  A predict request whose message is
\* missing or empty after trimming is answered 400 with the required-field
\* message, without _predict_text being entered.
C10_EmptyMessageIs400 ==
    \A t \in ReqThreads :
        (req[t].handler \in PredictHandlers /\ req[t].invalid)
            => /\ pc[t] = "idle"
               /\ resp[t].status = 400
               /\ resp[t].error = MSG_REQUIRED

\* This step is thread t's call of transform or predict ending in an
\* exception that its handler answers.
InferenceFails(t) ==
    /\ pc[t] \in {"transform", "predict"}
    /\ pc'[t] = "idle"
    /\ resp'[t].status # 200

\* C11: inference failures map to 500.  With both artifacts loaded, whatever
\* transform or predict raises during POST /predict or POST /predict-form is
\* answered 500 with the message "Inference failed.".
C11_InferenceFailureIs500 ==
    [][\A t \in ReqThreads :
          (Loaded /\ InferenceFails(t))
              => /\ resp'[t].status = 500
                 /\ resp'[t].error = MSG_INFERENCE]_vars

\* C12: no path disclosure on artifact failure.  The 503 answer of POST
\* /predict and of POST /predict-form contains neither the model path nor
\* the vectorizer path.
C12_No503PathDisclosure ==
    \A t \in ReqThreads :
        (Answered(t) /\ req[t].handler \in PredictHandlers
                     /\ resp[t].status = 503)
            => resp[t].paths = {}

\* C13: round trip of the label.  With the artifacts loaded, a classified
\* request is answered with a label exactly when predict returned a
\* prediction, the label is the string form of that prediction, and POST
\* /predict answers it as 200 {"label": that string}.
C13_LabelRoundTrip ==
    \A t \in ReqThreads :
        Classified(t) =>
            /\ (resp[t].status = 200) = (val[t] \in Predictions)
            /\ (val[t] \in Predictions) =>
                  /\ Loaded
                  /\ resp[t].label = Str(val[t])
                  /\ (req[t].handler = "predict_json")
                         => (resp[t] = JsonLabel(Str(val[t])))

\* POST /predict has answered a prediction that was a numpy integer.
C13_Witness ==
    \E t \in ReqThreads :
        /\ Classified(t) /\ req[t].handler = "predict_json"
        /\ val[t].type = "np_int"
        /\ resp[t].status = 200 /\ resp[t].label = "1"

\* This step is thread t's GET / handler returning its response.
HealthAnswers(t) ==
    /\ req[t].handler = "health"
    /\ pc[t] \in {"status_model", "status_vec"}
    /\ pc'[t] = "idle"

\* C14: health is truthful and always 200.  GET / answers 200 with
\* model_loaded true exactly when both artifacts are present at the moment
\* the handler finishes reading them; so it reports not loaded while no load
\* attempt has started and after a failed one.
C14_HealthTruthful ==
    [][\A t \in ReqThreads :
          HealthAnswers(t)
              => /\ resp'[t] = HealthBody(Loaded)
                 /\ resp'[t].status = 200
                 /\ (modelLoads = 0 \/ ~Loaded) => ~resp'[t].model_loaded]_vars

\* GET / has answered "not loaded" after a failed load attempt that left the
\* classifier set, and has answered "loaded" to the other thread since.
C14_Witness ==
    \E t, u \in ReqThreads :
        /\ Answered(t) /\ req[t].handler = "health"
        /\ ~resp[t].model_loaded /\ resp[t].status = 200
        /\ loadFailed /\ modelLoads = 2
        /\ Answered(u) /\ req[u].handler = "health"
        /\ resp[u].model_loaded

\* C15: mutual exclusion of loading.  At most one thread is inside the
\* read-and-deserialize section, and that thread holds the lock; failed and
\* retried attempts included.
C15_MutualExclusion ==
    /\ Cardinality({t \in Threads : InLoad(t)}) <= 1
    /\ \A t \in Threads : InLoad(t) => _artifact_lock = t

\* After a failed attempt, one thread is deserializing again while another
\* waits for the lock.
C15_Witness ==
    \E t, u \in Threads :
        /\ loadFailed
        /\ InLoad(t)
        /\ pc[u] = "acquire"

\* Thread t has returned normally from _load_artifacts_once.
Returned(t) ==
    IF t = BG THEN pc[t] = "done" /\ ~bgFailed
    ELSE pc[t] \in {"transform", "predict"}

\* C16: no inference on absent artifacts.  Whenever _load_artifacts_once has
\* returned normally both artifacts are present, so _predict_text reaches
\* transform and predict only with both present.
C16_ReturnedImpliesLoaded == \A t \in Threads : Returned(t) => Loaded

\* A request thread is about to call transform after waiting for the lock
\* that another thread, having loaded, has not yet released.
C16_Witness ==
    \E t \in ReqThreads, u \in Threads :
        /\ pc[t] = "transform"
        /\ pc[u] = "release" /\ _artifact_lock = u
        /\ modelLoads = 1 /\ vecLoads = 1

\* Thread t is at the presence test that opens _load_artifacts_once.
AtFirstCheck(t) == pc[t] \in {"check_model", "check_vec"}

\* C17: fast path after load.  Once both artifacts are present, a thread at
\* the first presence test can always take its step, whoever holds the lock,
\* and its call returns from that test: it goes on to _predict_text's
\* inference (the background task: ends) and never to the lock.
C17_FastPathAfterLoad ==
    [][\A t \in Threads :
          (Loaded /\ AtFirstCheck(t))
              => /\ ENABLED (CheckModel(t) \/ CheckVec(t))
                 /\ (pc'[t] # pc[t])
                        => /\ pc'[t] \in {"check_vec", AfterLoad(t)}
                           /\ _artifact_lock' = _artifact_lock]_vars

\* A thread is at the first presence test with both artifacts present while
\* another thread holds the lock.
C17_Witness ==
    \E t \in ReqThreads, u \in Threads :
        /\ Loaded /\ pc[t] = "check_model"
        /\ _artifact_lock = u /\ pc[u] = "recheck"

\* Thread t is inside _load_artifacts_once.
InCall(t) ==
    pc[t] \in {"check_model", "check_vec", "acquire", "recheck", "load_model",
               "load_vec", "release"}

\* A step of thread t inside _load_artifacts_once that waits for nothing:
\* a presence test, a file read with its deserialization, the exit of the
\* with block.
LoadStep(t) ==
    \/ CheckModel(t)
    \/ CheckVec(t)
    \/ Recheck(t)
    \/ LoadModel(t)
    \/ LoadVec(t)
    \/ Release(t)

\* Fair scheduling: a thread that can run is run, each file read and
\* deserialization finishes, and a thread waiting for the lock gets it if it
\* is free again and again.
Fairness ==
    \A t \in Threads : WF_vars(LoadStep(t)) /\ SF_vars(Acquire(t))

\* The calls of _load_artifacts_once and what brings request threads into
\* them and out again: the two predict handlers and the inference.  The
\* files stay as they were at the start, whatever that was.
CallNext ==
    \/ \E t \in Threads : CheckModel(t)
    \/ \E t \in Threads : CheckVec(t)
    \/ \E t \in Threads : Acquire(t)
    \/ \E t \in Threads : Recheck(t)
    \/ \E t \in Threads : LoadModel(t)
    \/ \E t \in Threads : LoadVec(t)
    \/ \E t \in Threads : Release(t)
    \/ \E t \in ReqThreads : PredictJson(t)
    \/ \E t \in ReqThreads : PredictForm(t)
    \/ \E t \in ReqThreads : Transform(t)
    \/ \E t \in ReqThreads : Predict(t)

CallSpec == Init /\ [][CallNext]_vars

FairSpec == Init /\ [][CallNext]_vars /\ Fairness

\* C18: no deadlock.  Under fair scheduling every call of
\* _load_artifacts_once eventually returns or raises: no thread stays inside
\* it, waiting for the lock or otherwise, for ever.
C18_EveryCallEnds == \A t \in Threads : InCall(t) ~> ~InCall(t)

\* A request thread waits for the lock, which another request thread holds,
\* after the background task's attempt has failed.
C18_Witness ==
    \E t, u \in ReqThreads :
        /\ bgFailed /\ loadFailed
        /\ pc[t] = "acquire"
        /\ _artifact_lock = u /\ pc[u] = "recheck"

\* Process start with both files readable and deserializable.
EagerInit == Init /\ modelFile = "ok" /\ vecFile = "ok"

\* The background task's call of _load_artifacts_once, and no request but
\* GET / and GET /demo: nothing else calls _load_artifacts_once.
EagerNext ==
    \/ CheckModel(BG)
    \/ Acquire(BG)
    \/ Recheck(BG)
    \/ LoadModel(BG)
    \/ LoadVec(BG)
    \/ Release(BG)
    \/ \E t \in ReqThreads : Health(t)
    \/ \E t \in ReqThreads : Demo(t)
    \/ \E t \in ReqThreads : StatusModel(t)
    \/ \E t \in ReqThreads : StatusVec(t)

\* The thread started at line 66 is scheduled, and its file reads finish.
EagerFairness == WF_vars(LoadStep(BG) \/ Acquire(BG))

EagerSpec == EagerInit /\ [][EagerNext]_vars /\ EagerFairness

\* C19: eager load without any request.  With both files readable at the
\* start, the background task alone brings the store to loaded, and ends
\* with the lock free; all the while every request thread can take the next
\* step of GET /, whatever the background task is doing.
C19_EagerLoadCompletes ==
    /\ <>[](Loaded /\ pc[BG] = "done" /\ ~bgFailed /\ _artifact_lock = NoThread)
    /\ [](\A t \in ReqThreads :
             ENABLED (Health(t) \/ StatusModel(t) \/ StatusVec(t)))

\* GET / has been answered, "not loaded", while the background task is
\* between its two deserializations.
C19_Witness ==
    \E t \in ReqThreads :
        /\ pc[BG] = "load_vec" /\ _artifact_lock = BG
        /\ Answered(t) /\ req[t].handler = "health"
        /\ resp[t].status = 200 /\ ~resp[t].model_loaded
        /\ _loaded_model # None

\* Every exception that can leave _predict_text in a handler: those of the
\* two file reads and those of the inference calls.
Raisable ==
    {OpenAndLoad(f) : f \in FileStates \ {"ok"}} \cup InferenceExc
        \cup {"AttributeError"}

\* C20: endpoint parity.  For the same message string POST /predict and
\* POST /predict-form take the same decision at validation and pass the same
\* text to _predict_text; they answer a rejected message, the same exception
\* and the same prediction with the same status code; and every status they
\* answer a request with is one of 200, 400, 500, 503.
C20_EndpointParity ==
    /\ \A m \in RawStrings :
          LET j == JsonMessage([shape |-> "object", message |-> m])
              f == FormMessage([shape |-> "field", message |-> m])
          IN  j = f /\ Rejected(j) = Rejected(f)
    /\ ValidationResponse("predict_json").status = 400
    /\ ValidationResponse("predict_form").status = 400
    /\ \A e \in Raisable :
          /\ ErrorResponse("predict_json", e).status \in {500, 503}
          /\ ErrorResponse("predict_form", e).status
                 = ErrorResponse("predict_json", e).status
    /\ \A p \in Predictions :
          /\ LabelResponse("predict_json", Normalize(p)).status = 200
          /\ LabelResponse("predict_form", Normalize(p)).status = 200
    /\ \A t \in ReqThreads :
          (Answered(t) /\ req[t].handler \in PredictHandlers)
              => resp[t].status \in {200, 400, 500, 503}

\* With the artifacts loaded, both endpoints have answered an inference
\* failure, and both with 500.
C20_Witness ==
    \E t, u \in ReqThreads :
        /\ Loaded
        /\ Classified(t) /\ req[t].handler = "predict_json"
        /\ Classified(u) /\ req[u].handler = "predict_form"
        /\ resp[t].status = 500 /\ resp[t].error = MSG_INFERENCE
        /\ resp[u].status = 500 /\ resp[u].error = MSG_INFERENCE

=============================================================================
